---- MODULE Spec2Model ----
(***************************************************************************)
(* Model of amazon_analysis.py: AmazonAnalyzer (load_and_clean_data,       *)
(* save_figure, the three analyze_* report functions) and the driver main. *)
(*                                                                         *)
(* Conventions.                                                            *)
(*  - A CSV field is a text: a sequence of one-character strings.  The     *)
(*    string "INR" stands for the single character U+20B9 (rupee sign).    *)
(*  - A numeric cell is a record [kind, val]: kind "num" carries val, the  *)
(*    kinds "nan", "+inf" and "-inf" are the float special values.         *)
(*  - Prices are whole rupees.  Euro amounts are kept in thousandths of a  *)
(*    euro, so that price * 0.011 is price * 11.  discount_actual is kept  *)
(*    in hundredths of a percent, so that round(2) yields an integer.      *)
(*  - A category is an integer; the order of the integers stands for the   *)
(*    lexicographic order of the category names (groupby sorts its keys).  *)
(***************************************************************************)
EXTENDS Integers, Sequences, FiniteSets, TLC

VARIABLES
    pc,       \* <<function, position>>: where the single thread of control is
    csv,      \* content of data/amazon_sales.csv: a sequence of raw rows
    df,       \* the working table (sequence of rows), <<>> before the load
    loaded,   \* TRUE once load_and_clean_data has returned a table
    figures,  \* number of matplotlib figures currently open
    files,    \* names of the image files written under grafici/
    chart,    \* per report, the bars of its top-15 panel as last built
    outcome,  \* per report: "none", "running", "true", "false" or "raised"
    log,      \* the logger's lines, in order
    stdout,   \* what print() wrote, in order
    calls,    \* the calls main has made, in order
    raised    \* where the exception main's handler sees was raised, or "none"

vars == <<pc, csv, df, loaded, figures, files, chart, outcome, log, stdout,
          calls, raised>>

----------------------------------------------------------------------------
(* Bounds of the model. *)

MaxTextLen == 2     \* longest enumerated price text (the named samples are longer)
MaxRows == 2        \* longest table of the driver runs
MaxFreeRows == 2    \* rows added to the 14 fixed categories in the top-15 runs

----------------------------------------------------------------------------
(* Values. *)

INR == "INR"
COMMA == ","

Num(v) == [kind |-> "num", val |-> v]
NaN == [kind |-> "nan", val |-> 0]
PosInf == [kind |-> "+inf", val |-> 0]
NegInf == [kind |-> "-inf", val |-> 0]

IsNum(x) == x.kind = "num"
IsNaN(x) == x.kind = "nan"
IsInf(x) == x.kind \in {"+inf", "-inf"}

\* An object-dtype cell as read_csv yields it: a string, or NaN for an empty field.
StrCell(s) == [isna |-> FALSE, str |-> s]
NaCell == [isna |-> TRUE, str |-> <<>>]

Digits == {"0", "1", "2", "3", "4", "5", "6", "7", "8", "9"}

DigitVal(c) ==
    CASE c = "0" -> 0 [] c = "1" -> 1 [] c = "2" -> 2 [] c = "3" -> 3
      [] c = "4" -> 4 [] c = "5" -> 5 [] c = "6" -> 6 [] c = "7" -> 7
      [] c = "8" -> 8 [] c = "9" -> 9

RECURSIVE DecimalValue(_)
DecimalValue(s) ==
    IF s = <<>> THEN 0
    ELSE 10 * DecimalValue(SubSeq(s, 1, Len(s) - 1)) + DigitVal(s[Len(s)])

\* pd.read_csv on one field: an empty field is NaN, anything else stays a string.
read_csv_field(t) == IF t = <<>> THEN NaCell ELSE StrCell(t)

\* Series.astype(str): NaN becomes the string "nan".
astype_str(c) == IF c.isna THEN <<"n", "a", "n">> ELSE c.str

\* Series.str.replace(ch, ''): every occurrence of the character is removed.
str_replace(s, ch) == SelectSeq(s, LAMBDA x : x # ch)

\* pd.to_numeric(errors='coerce') on a string: a run of decimal digits is its
\* value, every other string of the model's alphabet (the empty string and
\* "nan" included) is NaN.
to_numeric_str(s) ==
    IF s # <<>> /\ \A i \in 1..Len(s) : s[i] \in Digits
    THEN Num(DecimalValue(s))
    ELSE NaN

\* pd.to_numeric(errors='coerce') on an object cell: NaN stays NaN.
to_numeric(c) == IF c.isna THEN NaN ELSE to_numeric_str(c.str)

\* Faulty variant of clean_price: the thousands separators are left in.
clean_price_KeepComma(c) ==
    to_numeric_str(str_replace(astype_str(c), INR))

\* Lines 62-65: the cleaning of one price cell.
clean_price(c) ==
    to_numeric_str(str_replace(str_replace(astype_str(c), INR), COMMA))

\* Line 44 and line 66: value * 0.011, in thousandths of a euro.
INR_TO_EUR == 11

to_eur(x) == IF IsNum(x) THEN Num(x.val * INR_TO_EUR) ELSE x

\* Faulty variant of fillna0: nothing is filled.
fillna0_Missing(x) == x

\* Series.fillna(0).
fillna0(x) == IF IsNaN(x) THEN Num(0) ELSE x

\* round(n / d * 100 * 100) to the nearest integer, ties to even (numpy's
\* round), for d > 0: the quotient in hundredths of a percent.
RoundedPercent(n, d) ==
    LET q == (n * 10000) \div d
        r == (n * 10000) % d
    IN  IF 2 * r < d THEN q
        ELSE IF 2 * r > d THEN q + 1
        ELSE IF q % 2 = 0 THEN q ELSE q + 1

\* Lines 77-78: ((actual - discounted) / actual * 100).round(2) with float
\* arithmetic: NaN propagates, x / 0 is -inf or +inf by the sign of x, and
\* 0 / 0 is NaN.  No exception is raised.
discount_actual(a, d) ==
    IF IsNaN(a) \/ IsNaN(d) THEN NaN
    ELSE IF a.val = 0
         THEN IF a.val - d.val = 0 THEN NaN
              ELSE IF a.val - d.val < 0 THEN NegInf ELSE PosInf
         ELSE Num(RoundedPercent(a.val - d.val, a.val))

\* pd.read_csv on one row.
read_csv_row(r) ==
    [product_name |-> read_csv_field(r.product_name),
     category |-> r.category,
     actual_price |-> read_csv_field(r.actual_price),
     discounted_price |-> read_csv_field(r.discounted_price),
     rating |-> read_csv_field(r.rating),
     rating_count |-> read_csv_field(r.rating_count)]

\* Lines 60-78 on one row of the table read.
clean_row(r) ==
    LET actual == clean_price(r.actual_price)
        discounted == clean_price(r.discounted_price)
    IN  [product_name |-> r.product_name,
         category |-> r.category,
         actual_price |-> actual,
         discounted_price |-> discounted,
         actual_price_eur |-> to_eur(actual),
         discounted_price_eur |-> to_eur(discounted),
         rating |-> fillna0(to_numeric(r.rating)),
         rating_count |-> fillna0(to_numeric(r.rating_count)),
         discount_actual |-> discount_actual(actual, discounted)]

\* Faulty variant of load_and_clean_data: rows without a price are dropped.
load_and_clean_data_DropNa(file) ==
    SelectSeq([i \in 1..Len(file) |-> clean_row(read_csv_row(file[i]))],
              LAMBDA r : ~IsNaN(r.actual_price))

\* Lines 57-81: the table load_and_clean_data returns for a readable file.
load_and_clean_data(file) ==
    [i \in 1..Len(file) |-> clean_row(read_csv_row(file[i]))]

----------------------------------------------------------------------------
(* Aggregation: groupby().mean(), nlargest(), sort_values().               *)
(* A series is a sequence of entries [key, kind, val, den]: the value of   *)
(* kind "num" is val / den, with den > 0.                                  *)

Entry(k, x) == [key |-> k, kind |-> x.kind, val |-> x.val, den |-> 1]

\* x < y for two entries that are not NaN.
ValLess(x, y) ==
    IF x.kind = "-inf" THEN y.kind # "-inf"
    ELSE IF x.kind = "+inf" THEN FALSE
    ELSE IF y.kind = "-inf" THEN FALSE
    ELSE IF y.kind = "+inf" THEN TRUE
    ELSE x.val * y.den < y.val * x.den

ValEq(x, y) == ~ValLess(x, y) /\ ~ValLess(y, x)

RECURSIVE SortedKeys(_)
SortedKeys(S) ==
    IF S = {} THEN <<>>
    ELSE LET m == CHOOSE x \in S : \A y \in S : x <= y
         IN  <<m>> \o SortedKeys(S \ {m})

RECURSIVE SumVals(_)
SumVals(s) == IF s = <<>> THEN 0 ELSE s[1].val + SumVals(Tail(s))

\* Series.mean() of a sequence of cells: NaN is skipped; the mean of nothing
\* is NaN; an infinite value makes the mean infinite, and +inf with -inf NaN.
mean(cells) ==
    LET present == SelectSeq(cells, LAMBDA x : ~IsNaN(x))
        pos == \E i \in 1..Len(present) : present[i].kind = "+inf"
        neg == \E i \in 1..Len(present) : present[i].kind = "-inf"
    IN  IF present = <<>> \/ (pos /\ neg) THEN [kind |-> "nan", val |-> 0, den |-> 1]
        ELSE IF pos THEN [kind |-> "+inf", val |-> 0, den |-> 1]
        ELSE IF neg THEN [kind |-> "-inf", val |-> 0, den |-> 1]
        ELSE [kind |-> "num", val |-> SumVals(present), den |-> Len(present)]

ColumnOf(rows, col) == [i \in 1..Len(rows) |-> rows[i][col]]

\* df.groupby('category')[col].mean(): one entry per category, keys sorted.
groupby_mean(table, col) ==
    LET keys == SortedKeys({table[i].category : i \in 1..Len(table)})
        group(c) == SelectSeq(table, LAMBDA r : r.category = c)
        m(c) == mean(ColumnOf(group(c), col))
    IN  [i \in 1..Len(keys) |->
            LET v == m(keys[i])
            IN  [key |-> keys[i], kind |-> v.kind, val |-> v.val, den |-> v.den]]

\* x goes behind every element that is not smaller: equal values keep the
\* order in which they were inserted.
RECURSIVE InsertDesc(_, _)
InsertDesc(sorted, x) ==
    IF sorted = <<>> THEN <<x>>
    ELSE IF ValLess(sorted[1], x) THEN <<x>> \o sorted
    ELSE <<sorted[1]>> \o InsertDesc(Tail(sorted), x)

RECURSIVE StableSortDesc(_)
StableSortDesc(s) ==
    IF s = <<>> THEN <<>>
    ELSE InsertDesc(StableSortDesc(SubSeq(s, 1, Len(s) - 1)), s[Len(s)])

RECURSIVE InsertAsc(_, _)
InsertAsc(sorted, x) ==
    IF sorted = <<>> THEN <<x>>
    ELSE IF ValLess(x, sorted[1]) THEN <<x>> \o sorted
    ELSE <<sorted[1]>> \o InsertAsc(Tail(sorted), x)

RECURSIVE StableSortAsc(_)
StableSortAsc(s) ==
    IF s = <<>> THEN <<>>
    ELSE InsertAsc(StableSortAsc(SubSeq(s, 1, Len(s) - 1)), s[Len(s)])

\* Series.head(n) / .iloc[:n].
FirstN(s, n) == SubSeq(s, 1, IF Len(s) < n THEN Len(s) ELSE n)

Reverse(s) == [i \in 1..Len(s) |-> s[Len(s) + 1 - i]]

\* Faulty variant of nlargest: among equal values the last ones are kept.
nlargest_KeepLast(n, s) ==
    LET dropped == SelectSeq(s, LAMBDA x : x.kind # "nan")
        nan_index == SelectSeq(s, LAMBDA x : x.kind = "nan")
    IN  FirstN(StableSortDesc(Reverse(dropped)) \o nan_index, n)

\* Series.nlargest(n), keep='first' (pandas SelectNSeries.compute): the
\* entries that are not NaN in descending order, equal values in their
\* original order (a stable sort of the negated values), then the NaN
\* entries, cut to n.
nlargest(n, s) ==
    LET dropped == SelectSeq(s, LAMBDA x : x.kind # "nan")
        nan_index == SelectSeq(s, LAMBDA x : x.kind = "nan")
    IN  FirstN(StableSortDesc(dropped) \o nan_index, n)

\* Series.sort_values(ascending=True): NaN last.  On the at most 15 entries
\* it is given here numpy's default sort is an insertion sort, so equal
\* values keep their order.
sort_values(s) ==
    StableSortAsc(SelectSeq(s, LAMBDA x : x.kind # "nan"))
        \o SelectSeq(s, LAMBDA x : x.kind = "nan")

\* Lines 121, 182 and 236: the size of the three top lists.
TOP_N == 15
\* Line 288: the size of the printed top list.
TOP_PRINTED == 5

\* Lines 121-122.
top_prices(table) ==
    sort_values(nlargest(TOP_N, groupby_mean(table, "actual_price_eur")))

\* Lines 236-237.
top_discounts(table) ==
    sort_values(nlargest(TOP_N, groupby_mean(table, "discount_actual")))

\* df.nlargest(n, 'rating_count'): the row numbers, largest count first.
nlargest_rows(n, table) ==
    LET s == [i \in 1..Len(table) |-> Entry(i, table[i].rating_count)]
        top == nlargest(n, s)
    IN  [i \in 1..Len(top) |-> top[i].key]

\* Line 182: df.nlargest(15, 'rating_count').iloc[::-1], as row numbers.
top_reviewed(table) == Reverse(nlargest_rows(TOP_N, table))

\* Line 288.
top_products(table) == nlargest_rows(TOP_PRINTED, table)

----------------------------------------------------------------------------
(* The program: main and the methods it calls.                             *)

Reports == {"price", "rating", "discount"}

\* Faulty variant of MainOrder: the first two reports are exchanged.
MainOrder_Swapped == <<"rating", "price", "discount">>

\* Lines 282-284: the report calls of main, in the order written.
MainOrder == <<"price", "rating", "discount">>

FunctionOf(r) ==
    CASE r = "price" -> "analyze_price_distribution"
      [] r = "rating" -> "analyze_ratings"
      [] r = "discount" -> "analyze_discounts"

\* Lines 146, 211, 261: the file name each report hands to save_figure.
ImageOf(r) ==
    CASE r = "price" -> "price_analysis.png"
      [] r = "rating" -> "rating_analysis.png"
      [] r = "discount" -> "discount_analysis.png"

NoException == <<"none", "none">>

\* One logger line: level, message, and the file name it mentions if any.
LogLine(level, msg, arg) == <<level, msg, arg>>

\* The bars of the report's top-15 panel.
Bars(r, table) ==
    CASE r = "price" -> top_prices(table)
      [] r = "rating" -> top_reviewed(table)
      [] r = "discount" -> top_discounts(table)

\* Line 191: name[:40] raises TypeError on a product_name that is NaN.
\* The other two reports index no object cell.
BuildRaises(r, table) ==
    /\ r = "rating"
    /\ \E i \in 1..Len(top_reviewed(table)) :
          table[top_reviewed(table)[i]].product_name.isna

\* Where main continues once the report at place i of MainOrder has
\* returned; the value returned is not looked at (lines 282-284).
AfterReport(i) ==
    IF i < Len(MainOrder) THEN <<MainOrder[i + 1], "call">>
    ELSE <<"main", "top5">>

PlaceOf(r) == CHOOSE i \in 1..Len(MainOrder) : MainOrder[i] = r

\* Line 266: AmazonAnalyzer() returns; line 267.
Construct ==
    /\ pc = <<"main", "start">>
    /\ calls' = Append(calls, "AmazonAnalyzer")
    /\ log' = Append(log, LogLine("INFO", "Inizio analisi Amazon Sales", ""))
    /\ pc' = <<"main", "load">>
    /\ UNCHANGED <<csv, df, loaded, figures, files, chart, outcome, stdout, raised>>

\* Line 266: AmazonAnalyzer() raises (line 19, mkdir fails).
ConstructFail ==
    /\ pc = <<"main", "start">>
    /\ calls' = Append(calls, "AmazonAnalyzer")
    /\ raised' = <<"AmazonAnalyzer", "mkdir">>
    /\ pc' = <<"main", "except">>
    /\ UNCHANGED <<csv, df, loaded, figures, files, chart, outcome, log, stdout>>

\* Line 270, lines 56-81: the file is read and cleaned.
Load ==
    /\ pc = <<"main", "load">>
    /\ calls' = Append(calls, "load_and_clean_data")
    /\ df' = load_and_clean_data(csv)
    /\ loaded' = TRUE
    /\ log' = log \o <<LogLine("INFO", "Dati caricati", ""),
                       LogLine("INFO", "Pulizia dati completata", "")>>
    /\ pc' = <<"main", "stats">>
    /\ UNCHANGED <<csv, figures, files, chart, outcome, stdout, raised>>

\* Faulty variant of LoadFail: the handler logs and returns an empty table.
LoadFail_Swallow ==
    /\ pc = <<"main", "load">>
    /\ calls' = Append(calls, "load_and_clean_data")
    /\ log' = Append(log, LogLine("ERROR", "Errore nel caricamento dati", ""))
    /\ df' = <<>>
    /\ pc' = <<"main", "stats">>
    /\ UNCHANGED <<csv, loaded, figures, files, chart, outcome, stdout, raised>>

\* Line 270, lines 57 and 83-85: read_csv raises, the handler logs and re-raises.
LoadFail ==
    /\ pc = <<"main", "load">>
    /\ calls' = Append(calls, "load_and_clean_data")
    /\ log' = Append(log, LogLine("ERROR", "Errore nel caricamento dati", ""))
    /\ raised' = <<"load_and_clean_data", "read_csv">>
    /\ pc' = <<"main", "except">>
    /\ UNCHANGED <<csv, df, loaded, figures, files, chart, outcome, stdout>>

\* Lines 273-281.
PrintStats ==
    /\ pc = <<"main", "stats">>
    /\ calls' = Append(calls, "print_stats")
    /\ stdout' = Append(stdout, <<"STATISTICHE DI BASE", <<Len(df)>>>>)
    /\ log' = Append(log, LogLine("INFO", "Generazione visualizzazioni", ""))
    /\ pc' = <<MainOrder[1], "call">>
    /\ UNCHANGED <<csv, df, loaded, figures, files, chart, outcome, raised>>

\* Lines 103, 150, 215: the report is entered and opens its figure.
ReportBegin(r) ==
    /\ pc = <<r, "call">>
    /\ calls' = Append(calls, FunctionOf(r))
    /\ figures' = figures + 1
    /\ outcome' = [outcome EXCEPT ![r] = "running"]
    /\ pc' = <<r, "build">>
    /\ UNCHANGED <<csv, df, loaded, files, chart, log, stdout, raised>>

\* Lines 104-145, 151-210, 216-260: the panels are built from the table.
ReportBuild(r) ==
    /\ pc = <<r, "build">>
    /\ ~BuildRaises(r, df)
    /\ chart' = [chart EXCEPT ![r] = Bars(r, df)]
    /\ pc' = <<r, "save">>
    /\ UNCHANGED <<csv, df, loaded, figures, files, outcome, log, stdout, calls, raised>>

\* The same lines, when one of them raises: no handler in the report
\* function, the exception leaves it with the figure still open.
ReportBuildFail(r) ==
    /\ pc = <<r, "build">>
    /\ outcome' = [outcome EXCEPT ![r] = "raised"]
    /\ raised' = <<r, "build">>
    /\ pc' = <<"main", "except">>
    /\ UNCHANGED <<csv, df, loaded, figures, files, chart, log, stdout, calls>>

\* Lines 90-95: save_figure writes the image, closes all figures, returns True.
SaveFigure(r) ==
    /\ pc = <<r, "save">>
    /\ files' = files \cup {ImageOf(r)}
    /\ figures' = 0
    /\ log' = Append(log, LogLine("INFO", "Salvato", ImageOf(r)))
    /\ outcome' = [outcome EXCEPT ![r] = "true"]
    /\ pc' = AfterReport(PlaceOf(r))
    /\ UNCHANGED <<csv, df, loaded, chart, stdout, calls, raised>>

\* Faulty variant of SaveFigureFail: the handler re-raises.
SaveFigureFail_Reraise(r) ==
    /\ pc = <<r, "save">>
    /\ log' = Append(log, LogLine("ERROR", "Errore nel salvare", ImageOf(r)))
    /\ figures' = 0
    /\ outcome' = [outcome EXCEPT ![r] = "raised"]
    /\ raised' = <<r, "save">>
    /\ pc' = <<"main", "except">>
    /\ UNCHANGED <<csv, df, loaded, files, chart, stdout, calls>>

\* Faulty variant of SaveFigureFail: main gives up on a False result.
SaveFigureFail_MainAborts(r) ==
    /\ pc = <<r, "save">>
    /\ log' = Append(log, LogLine("ERROR", "Errore nel salvare", ImageOf(r)))
    /\ figures' = 0
    /\ outcome' = [outcome EXCEPT ![r] = "false"]
    /\ raised' = <<"main", "result">>
    /\ pc' = <<"main", "except">>
    /\ UNCHANGED <<csv, df, loaded, files, chart, stdout, calls>>

\* Faulty variant of SaveFigureFail: the handler does not close the figures.
SaveFigureFail_NoClose(r) ==
    /\ pc = <<r, "save">>
    /\ log' = Append(log, LogLine("ERROR", "Errore nel salvare", ImageOf(r)))
    /\ outcome' = [outcome EXCEPT ![r] = "false"]
    /\ pc' = AfterReport(PlaceOf(r))
    /\ UNCHANGED <<csv, df, loaded, figures, files, chart, stdout, calls, raised>>

\* Lines 90-92 raise, lines 96-99: the handler logs, closes all figures,
\* returns False.
SaveFigureFail(r) ==
    /\ pc = <<r, "save">>
    /\ log' = Append(log, LogLine("ERROR", "Errore nel salvare", ImageOf(r)))
    /\ figures' = 0
    /\ outcome' = [outcome EXCEPT ![r] = "false"]
    /\ pc' = AfterReport(PlaceOf(r))
    /\ UNCHANGED <<csv, df, loaded, files, chart, stdout, calls, raised>>

\* Lines 287-295: the header and the top products are printed.  Line 290
\* indexes product_name, which raises on NaN; every row it reaches is one of
\* the rows line 191 has indexed before, so it does not raise here.
PrintTop5 ==
    /\ pc = <<"main", "top5">>
    /\ calls' = Append(calls, "print_top5")
    /\ stdout' = Append(stdout, <<"TOP 5 PRODOTTI", top_products(df)>>)
    /\ log' = Append(log, LogLine("INFO", "Analisi completata con successo", ""))
    /\ pc' = <<"main", "done">>
    /\ UNCHANGED <<csv, df, loaded, figures, files, chart, outcome, raised>>

\* Lines 297-299: main's handler logs and re-raises.
MainExcept ==
    /\ pc = <<"main", "except">>
    /\ log' = Append(log, LogLine("ERROR", "Errore durante l'analisi", ""))
    /\ pc' = <<"main", "aborted">>
    /\ UNCHANGED <<csv, df, loaded, figures, files, chart, outcome, stdout, calls, raised>>

----------------------------------------------------------------------------
(* Inputs and specifications. *)

RECURSIVE TextsUpTo(_, _)
TextsUpTo(alphabet, n) ==
    IF n = 0 THEN {<<>>}
    ELSE LET shorter == TextsUpTo(alphabet, n - 1)
         IN  shorter \cup {Append(t, c) : t \in shorter, c \in alphabet}

RECURSIVE TablesUpTo(_, _)
TablesUpTo(rows, n) ==
    IF n = 0 THEN {<<>>}
    ELSE LET shorter == TablesUpTo(rows, n - 1)
         IN  shorter \cup {Append(t, r) : t \in shorter, r \in rows}

RawRow(name, cat, actual, discounted, rating, count) ==
    [product_name |-> name, category |-> cat, actual_price |-> actual,
     discounted_price |-> discounted, rating |-> rating, rating_count |-> count]

\* Rows of the driver runs: a well-formed row, a row without a name whose
\* actual price is 0, a row with unparsable fields, a second plain row.
SampleRows ==
    { RawRow(<<"A">>, 1, <<INR, "1", COMMA, "0", "0", "0">>, <<INR, "7", "5", "0">>,
             <<"4">>, <<"1", "2">>),
      RawRow(<<>>, 2, <<"0">>, <<INR, "7", "5", "0">>, <<"|">>, <<>>),
      RawRow(<<"B">>, 1, <<>>, <<"x">>, <<"5">>, <<"2", COMMA, "4">>),
      RawRow(<<"C">>, 2, <<INR, "2", "0">>, <<INR, "1", "0">>, <<"3">>, <<"7">>) }

\* Price texts of the cleaning runs: every text over the alphabet up to
\* MaxTextLen characters, and some longer ones.
PriceAlphabet == {INR, COMMA, "1", "x"}

PriceSamples ==
    { <<INR, "1", COMMA, "2", "3", "4">>, <<INR, "1", COMMA, "0", "0", "0">>,
      <<INR, "7", "5", "0">>, <<"0">>, <<"3", "2">>, <<"3", "1">>, <<"n", "a", "n">> }

PriceTexts == TextsUpTo(PriceAlphabet, MaxTextLen) \cup PriceSamples

\* rating and rating_count texts of the cleaning runs.
RatingPairs ==
    { <<<<"4">>, <<"1", "2">>>>, <<<<"|">>, <<"2", COMMA, "4">>>>,
      <<<<>>, <<>>>>, <<<<"0">>, <<"x">>>>, <<<<"x">>, <<"0">>>> }

CleanTables ==
    { <<RawRow(<<"A">>, 1, a, d, rc[1], rc[2])>> :
        a \in PriceTexts, d \in PriceTexts, rc \in RatingPairs }

\* Tables of the top-15 runs: fourteen categories with one row each, and up
\* to MaxFreeRows rows of three further categories that sort before and
\* after them; "x" is a price that does not parse.
FillerCats == 2..15
FreeCats == {1, 16, 17}
FreePrices == {<<"2">>, <<"3">>, <<"x">>}

FillerRows ==
    [i \in 1..Cardinality(FillerCats) |->
        RawRow(<<"F">>, i + 1, IF i + 1 <= 8 THEN <<"2">> ELSE <<"3">>, <<"1">>,
               <<"4">>, <<"1">>)]

FreeRows ==
    { RawRow(<<"G">>, c, p, <<"1">>, <<"4">>, <<"1">>) : c \in FreeCats, p \in FreePrices }

TopTables == { FillerRows \o t : t \in TablesUpTo(FreeRows, MaxFreeRows) }

InitWith(tables) ==
    /\ pc = <<"main", "start">>
    /\ csv \in tables
    /\ df = <<>>
    /\ loaded = FALSE
    /\ figures = 0
    /\ files = {}
    /\ chart = [r \in Reports |-> <<>>]
    /\ outcome = [r \in Reports |-> "none"]
    /\ log = <<>>
    /\ stdout = <<>>
    /\ calls = <<>>
    /\ raised = NoException

\* A whole run of main, on any table of up to MaxRows sample rows.
Init == InitWith(TablesUpTo(SampleRows, MaxRows))

Next ==
    \/ Construct
    \/ ConstructFail
    \/ Load
    \/ LoadFail
    \/ PrintStats
    \/ \E r \in Reports : ReportBegin(r)
    \/ \E r \in Reports : ReportBuild(r)
    \/ \E r \in Reports : ReportBuildFail(r)
    \/ \E r \in Reports : SaveFigure(r)
    \/ \E r \in Reports : SaveFigureFail(r)
    \/ PrintTop5
    \/ MainExcept

Spec == Init /\ [][Next]_vars

\* The load of a one-row table whose fields range over the texts above.
InitClean == InitWith(CleanTables)

NextClean == Construct \/ Load

SpecClean == InitClean /\ [][NextClean]_vars

\* The run up to the built price report, on the top-15 tables.
InitTop == InitWith(TopTables)

NextTop ==
    \/ Construct
    \/ Load
    \/ PrintStats
    \/ \E r \in Reports : ReportBegin(r)
    \/ ReportBuild("price")

SpecTop == InitTop /\ [][NextTop]_vars

----------------------------------------------------------------------------
(* Properties. *)

Aborting == pc \in {<<"main", "except">>, <<"main", "aborted">>}

Logged(line) == \E i \in 1..Len(log) : log[i] = line

CountOf(seq, x) == Cardinality({i \in 1..Len(seq) : seq[i] = x})

IsPrefix(s, t) == Len(s) <= Len(t) /\ SubSeq(t, 1, Len(s)) = s

Returned(r) == outcome[r] \in {"true", "false"}

\* C1 as stated: a report function never raises; whatever fails while the
\* chart is built or saved, the failure is logged and False is returned, and
\* True is returned only when the image file was saved.
C1_ReportNeverRaises ==
    \A r \in Reports :
        /\ outcome[r] # "raised"
        /\ outcome[r] = "true" => ImageOf(r) \in files
        /\ outcome[r] = "false" => Logged(LogLine("ERROR", "Errore nel salvare", ImageOf(r)))

\* C1 amended: a failure inside save_figure is logged and the report function
\* returns False without raising, and it returns True only when the image
\* file was saved; a failure while the chart is built is not caught by the
\* report function and reaches its caller as an exception.
C1_SaveFailureReturnsFalse ==
    \A r \in Reports :
        /\ outcome[r] = "true" =>
              /\ ImageOf(r) \in files
              /\ Logged(LogLine("INFO", "Salvato", ImageOf(r)))
        /\ outcome[r] = "false" =>
              /\ ImageOf(r) \notin files
              /\ Logged(LogLine("ERROR", "Errore nel salvare", ImageOf(r)))
              /\ raised[1] # r
        /\ outcome[r] = "raised" =>
              /\ raised = <<r, "build">>
              /\ ImageOf(r) \notin files
        /\ raised[1] = r => raised[2] = "build" /\ outcome[r] = "raised"

C1_Witness ==
    /\ outcome["price"] = "false"
    /\ outcome["rating"] = "true"
    /\ outcome["discount"] = "raised"

\* C2 as stated: once the load has succeeded no report failure aborts the
\* run: main never enters its handler, and it ends with all three reports
\* attempted and the top-5 list printed after them.
C2_ReportFailureNeverAborts ==
    loaded =>
        /\ ~Aborting
        /\ pc = <<"main", "done">> =>
              /\ \A r \in Reports : outcome[r] # "none"
              /\ stdout[Len(stdout)][1] = "TOP 5 PRODOTTI"

\* C2 amended: a report whose save fails does not abort the run: whichever
\* subset of the reports failed to save, the next step is still taken, and a
\* run in which no chart building raises attempts all three reports, prints
\* the top-5 list after them and completes normally; after a successful load
\* main aborts only on an exception raised while a chart is built.
C2_SaveFailureNeverAborts ==
    /\ (loaded /\ Aborting) => \E r \in Reports : raised = <<r, "build">>
    /\ Returned("price") => pc = <<"rating", "call">> \/ outcome["rating"] # "none"
    /\ Returned("rating") => pc = <<"discount", "call">> \/ outcome["discount"] # "none"
    /\ Returned("discount") => pc \in {<<"main", "top5">>, <<"main", "done">>}
    /\ pc = <<"main", "done">> =>
          /\ \A r \in Reports : Returned(r)
          /\ CountOf(calls, "print_top5") = 1
          /\ calls[Len(calls)] = "print_top5"
          /\ stdout[Len(stdout)][1] = "TOP 5 PRODOTTI"
          /\ raised = NoException
    /\ (loaded /\ pc[2] = "save") => ENABLED SaveFigureFail(pc[1])
    /\ (loaded /\ pc[2] = "call") => ENABLED ReportBegin(pc[1])
    /\ pc = <<"main", "top5">> => ENABLED PrintTop5

C2_Witness ==
    /\ pc = <<"main", "done">>
    /\ \A r \in Reports : outcome[r] = "false"

LoadFailed == Logged(LogLine("ERROR", "Errore nel caricamento dati", ""))

\* C3: when reading the CSV fails, load_and_clean_data has been attempted
\* exactly once, its error is logged once and the exception re-raised, main
\* is in its handler or has re-raised, and nothing was printed, no report
\* was invoked and no image was written.
C3_LoadFailureAborts ==
    LoadFailed =>
        /\ Aborting
        /\ raised = <<"load_and_clean_data", "read_csv">>
        /\ ~loaded
        /\ CountOf(calls, "load_and_clean_data") = 1
        /\ CountOf(log, LogLine("ERROR", "Errore nel caricamento dati", "")) = 1
        /\ stdout = <<>>
        /\ files = {}
        /\ figures = 0
        /\ \A r \in Reports : outcome[r] = "none" /\ CountOf(calls, FunctionOf(r)) = 0
        /\ pc = <<"main", "aborted">> =>
              log[Len(log)] = LogLine("ERROR", "Errore durante l'analisi", "")

C3_Witness == LoadFailed /\ pc = <<"main", "aborted">>

FixedOrder ==
    <<"AmazonAnalyzer", "load_and_clean_data", "print_stats",
      "analyze_price_distribution", "analyze_ratings", "analyze_discounts",
      "print_top5">>

\* C4: the calls main has made are always an initial part of the one fixed
\* order (so none is made twice or out of turn), and while a step is being
\* entered or run every earlier report has returned with its figure
\* released and no later report has started.
C4_FixedOrder ==
    /\ IsPrefix(calls, FixedOrder)
    /\ Cardinality({r \in Reports : outcome[r] = "running"}) <= 1
    /\ pc[2] = "call" =>
          /\ figures = 0
          /\ outcome[pc[1]] = "none"
          /\ \A r \in Reports : outcome[r] # "running"
    /\ pc = <<"main", "top5">> => \A r \in Reports : Returned(r) /\ figures = 0
    /\ outcome["rating"] # "none" => Returned("price")
    /\ outcome["discount"] # "none" => Returned("price") /\ Returned("rating")
    /\ outcome["price"] # "none" => Len(stdout) >= 1 /\ loaded

C4_Witness == calls = FixedOrder /\ pc = <<"main", "done">>

\* C5 as stated: after a report function has finished, whether it saved,
\* failed while saving or failed while building, no figure remains open.
C5_AlwaysReleased ==
    \A r \in Reports : outcome[r] \in {"true", "false", "raised"} => figures = 0

\* C5 amended: after a report function has returned, whether it saved its
\* image or failed while saving, no figure remains open, so no report starts
\* with a figure left over; a report that fails while building its chart
\* can leave its figure open, and the run then aborts without starting
\* another report.
C5_ReleasedAfterSave ==
    /\ (\A r \in Reports : outcome[r] \in {"none", "true", "false"}) => figures = 0
    /\ (\E r \in Reports : outcome[r] = "running") => figures = 1
    /\ figures \in {0, 1}
    /\ pc[2] = "call" => figures = 0
    /\ (\E r \in Reports : outcome[r] = "raised") => Aborting

C5_Witness ==
    /\ outcome["price"] = "false"
    /\ pc = <<"rating", "call">>
    /\ figures = 0

Abs(x) == IF x < 0 THEN -x ELSE x

\* C6: for every row, discount_actual is (actual - discounted) / actual * 100
\* rounded to 2 places (25.00 for 1000 and 750) when actual_price is not zero
\* and both prices are present, and it is a missing value whenever
\* actual_price is zero or missing, whatever the discounted price is.
C6_DiscountDefinedOrMissing ==
    loaded =>
        \A i \in 1..Len(df) :
            LET a == df[i].actual_price
                d == df[i].discounted_price
                x == df[i].discount_actual
            IN  /\ (IsNum(a) /\ a.val # 0 /\ IsNum(d)) =>
                      /\ IsNum(x)
                      /\ 2 * Abs(x.val * a.val - (a.val - d.val) * 10000) <= Abs(a.val)
                /\ (a = Num(1000) /\ d = Num(750)) => x = Num(2500)
                /\ (IsNaN(a) \/ a = Num(0)) => IsNaN(x)

\* What the rating and rating_count texts of the cleaning runs denote: the
\* number written, and 0 for an empty or unparsable text.
RatingOracle(t) ==
    CASE t = <<"4">> -> 4
      [] t = <<"1", "2">> -> 12
      [] t = <<"0">> -> 0
      [] OTHER -> 0

\* C7: in the table load_and_clean_data returns no rating or rating_count is
\* missing: a value that was absent or did not parse as a number is exactly
\* 0, and a value that parsed is kept unchanged.
C7_RatingsFilled ==
    loaded =>
        /\ Len(df) = Len(csv)
        /\ \A i \in 1..Len(df) :
              /\ df[i].rating = Num(RatingOracle(csv[i].rating))
              /\ df[i].rating_count = Num(RatingOracle(csv[i].rating_count))

C7_Witness ==
    /\ loaded
    /\ csv[1].rating = <<"|">> /\ df[1].rating = Num(0)
    /\ csv[1].rating_count = <<"2", COMMA, "4">> /\ df[1].rating_count = Num(0)

RECURSIVE Pow10(_)
Pow10(n) == IF n = 0 THEN 1 ELSE 10 * Pow10(n - 1)

RECURSIVE NumeralSum(_, _)
NumeralSum(s, i) ==
    IF i > Len(s) THEN 0
    ELSE DigitVal(s[i]) * Pow10(Len(s) - i) + NumeralSum(s, i + 1)

\* What a price text denotes: the number that is left once the currency
\* symbol and the thousands separators are taken out, if a number is left.
PriceOracle(t) ==
    LET rest == SelectSeq(t, LAMBDA c : c \notin {INR, COMMA})
    IN  IF rest # <<>> /\ \A i \in 1..Len(rest) : rest[i] \in Digits
        THEN Num(NumeralSum(rest, 1))
        ELSE NaN

\* C8: for every row and both price columns, cleaning takes the currency
\* symbol and the thousands separators out of the text and parses the rest
\* ("1,234" with the currency symbol becomes 1234); a text that does not
\* parse, the empty one included, becomes a missing value, the load still
\* returns every row, and every cleaned price is a number or missing.
C8_PricesParsed ==
    loaded =>
        /\ Len(df) = Len(csv)
        /\ \A i \in 1..Len(df) :
              /\ df[i].actual_price = PriceOracle(csv[i].actual_price)
              /\ df[i].discounted_price = PriceOracle(csv[i].discounted_price)
              /\ df[i].actual_price.kind \in {"num", "nan"}
              /\ df[i].discounted_price.kind \in {"num", "nan"}
              /\ csv[i].actual_price = <<INR, "1", COMMA, "2", "3", "4">> =>
                    df[i].actual_price = Num(1234)
              /\ csv[i].discounted_price = <<>> => df[i].discounted_price = NaN

C8_Witness ==
    /\ loaded
    /\ csv[1].actual_price = <<INR, "1", COMMA, "2", "3", "4">>
    /\ df[1].actual_price = Num(1234)
    /\ csv[1].discounted_price = <<>>
    /\ df[1].discounted_price = NaN

\* C9: the price report shows the (at most) 15 categories with the highest
\* mean converted actual price: every category left out has a lower mean
\* than every category shown, or the same mean and a later place in the
\* group order (a category without a mean counts as lowest); the categories
\* shown are in ascending order of their mean.
C9_TopPricesSelection ==
    pc = <<"price", "save">> =>
        LET bars == chart["price"]
            series == groupby_mean(df, "actual_price_eur")
            n == Len(series)
            shown == {bars[i].key : i \in 1..Len(bars)}
        IN  /\ Len(bars) = IF n < 15 THEN n ELSE 15
            /\ \A i \in 1..Len(bars) : \E j \in 1..n : series[j] = bars[i]
            /\ Cardinality(shown) = Len(bars)
            /\ \A i, j \in 1..n :
                  (series[i].key \in shown /\ series[j].key \notin shown) =>
                      LET s == series[i]
                          u == series[j]
                      IN  IF u.kind = "nan" THEN s.kind = "nan" => i < j
                          ELSE /\ s.kind # "nan"
                               /\ ~ValLess(s, u)
                               /\ ValEq(s, u) => i < j
            /\ \A i, j \in 1..Len(bars) :
                  i < j => \/ bars[j].kind = "nan"
                           \/ bars[i].kind # "nan" /\ ~ValLess(bars[j], bars[i])

\* More than 15 categories, and a tie in the mean between a category shown
\* and one left out.
C9_Witness ==
    /\ pc = <<"price", "save">>
    /\ LET bars == chart["price"]
           series == groupby_mean(df, "actual_price_eur")
           shown == {bars[i].key : i \in 1..Len(bars)}
       IN  /\ Len(series) > 15
           /\ \E i, j \in 1..Len(series) :
                 /\ series[i].key \in shown
                 /\ series[j].key \notin shown
                 /\ series[i].kind = "num"
                 /\ series[j].kind = "num"
                 /\ ValEq(series[i], series[j])

RawColumns ==
    {"product_name", "category", "actual_price", "discounted_price", "rating",
     "rating_count"}

\* C10: the working table changes only in the cleaning step; cleaning keeps
\* every row read and every column read (it adds columns and rewrites the
\* price, rating and rating_count columns); no later step changes the table.
C10_TableFrame ==
    /\ [][pc # <<"main", "load">> => df' = df]_vars
    /\ [](loaded =>
            /\ Len(df) = Len(csv)
            /\ \A i \in 1..Len(df) :
                  /\ RawColumns \subseteq DOMAIN df[i]
                  /\ df[i].category = csv[i].category
                  /\ df[i].product_name = read_csv_field(csv[i].product_name))

\* A finished run on a full table that holds a row whose price did not parse.
C10_Witness ==
    /\ pc = <<"main", "done">>
    /\ Len(df) = MaxRows
    /\ \E i \in 1..Len(df) : IsNaN(df[i].actual_price)
    /\ files # {}

====
